---- MODULE Spec2Model ----
(***************************************************************************)
(* Model of scripts/synology-cloudsync-decrypt.py: the TLV decoder         *)
(* (read_object / read_dict), the metadata extractor, PKCS7 unpadding,     *)
(* the session-key heuristic and the decrypt_cloudsync pipeline.           *)
(*                                                                         *)
(* Bytes are integers 0..255, a bytes object is a sequence of them, a str  *)
(* is a sequence of code points.  A decoded TLV value is a record          *)
(* [k, v] with k one of "none", "str", "bytes", "int", "dict"; the v of a  *)
(* dict is the sequence of its <<key, value>> pairs in insertion order     *)
(* (an OrderedDict).                                                       *)
(***************************************************************************)
EXTENDS Integers, Sequences, FiniteSets, TLC

VARIABLES
    stream,     \* the bytes of the stream being decoded (io.BytesIO contents)
    pos,        \* the stream position: number of bytes consumed so far
    last,       \* result of the latest read_object call
    out,        \* values returned so far by top-level read_object calls
    tree,       \* the value trees whose encodings make up the stream
    tail,       \* the bytes that follow the encoding of tree in the stream
    cut,        \* number of bytes removed from the end of the stream
    calls,      \* number of top-level read_object calls made
    buf,        \* a decrypted buffer handed to strip_pkcs7_padding
    unpadded,   \* what strip_pkcs7_padding made of buf
    plain_key,  \* the session key as it is before encryption under the password
    key_salt,   \* the salt the session key is encrypted under
    enc_key,    \* enc_key1: the base64 text of the encrypted session key
    key_result, \* what _decrypt_session_key made of enc_key
    file_data,  \* data: the bytes of the encrypted file
    pc,         \* the step decrypt_cloudsync is at
    metadata,   \* the _ParsedMetadata being filled
    session_key,    \* the session key (line 272)
    decrypted_data, \* the plaintext so far (lines 275, 279)
    output,     \* the bytes written to output_path
    writes,     \* number of times the output was written
    err,        \* the exception that ended the run, "none" while there is none
    failed_at,  \* the step that raised it
    steps,      \* the steps completed so far, in order
    objects,    \* the top-level values decoded and handed on so far
    decode_calls,   \* calls of read_object made by the parse loop
    kdf_calls,  \* calls of openssl_kdf
    aes_calls,  \* AES decryptions
    layout,     \* the kinds of the top-level items the file was built from
    profile     \* the variants of the items the file was built from

tlvVars == <<last, out, tree, tail, cut, calls>>
padVars == <<buf, unpadded>>
keyVars == <<plain_key, key_salt, enc_key, key_result>>
runVars == <<file_data, pc, metadata, session_key, decrypted_data, output, writes, err,
             failed_at, steps, objects, decode_calls, kdf_calls, aes_calls,
             layout, profile>>
vars == <<stream, pos, tlvVars, padVars, keyVars, runVars>>

-----------------------------------------------------------------------------
(* Bounds of the model *)

\* pairs per generated map
MaxPairs == 2
\* bytes cut off the end of a generated stream
MaxCut == 3
\* maps wrapped around a generated tree
MaxDepth == 2
\* 16-byte blocks of a buffer to unpad
MaxBlocks == 2
\* bytes of a generated session key
MaxKeyLen == 3

-----------------------------------------------------------------------------
(* Format constants *)

MAGIC == <<95, 95, 67, 76, 79, 85, 68, 83, 89, 78, 67, 95, 69, 78, 67, 95, 95>>
TLV_DICT_START == 66
TLV_DICT_END == 64
TLV_STRING == 16
TLV_BYTES == 17
TLV_INT == 1
AES_BLOCK_SIZE == 16

-----------------------------------------------------------------------------
(* TLVObject *)

NoneV == [k |-> "none", v |-> 0]
StrV(s) == [k |-> "str", v |-> s]
BytesV(b) == [k |-> "bytes", v |-> b]
IntV(n) == [k |-> "int", v |-> n]
DictV(pairs) == [k |-> "dict", v |-> pairs]

Min(a, b) == IF a < b THEN a ELSE b

\* f.read(n) at position p: the next n bytes, or fewer at the end of the stream
read(s, p, n) == SubSeq(s, p + 1, Min(p + n, Len(s)))

RECURSIVE from_bytes(_)
\* int.from_bytes(b, "big"); 0 for the empty sequence
from_bytes(b) ==
    IF Len(b) = 0 THEN 0
    ELSE from_bytes(SubSeq(b, 1, Len(b) - 1)) * 256 + b[Len(b)]

IsCont(b, i) == i <= Len(b) /\ b[i] >= 128 /\ b[i] <= 191

\* one step of bytes.decode("utf-8"): st.i is the index of the next lead
\* byte, st.v the code points so far; the byte at j is skipped when it was
\* consumed as a continuation byte
Utf8Step(b, j, st) ==
    IF ~st.ok \/ j < st.i THEN st
    ELSE LET c == b[j]
             bad == [st EXCEPT !.ok = FALSE]
         IN
      IF c < 128 THEN [ok |-> TRUE, i |-> j + 1, v |-> Append(st.v, c)]
      ELSE IF c >= 194 /\ c <= 223 THEN
        IF IsCont(b, j + 1)
        THEN [ok |-> TRUE, i |-> j + 2,
              v |-> Append(st.v, (c - 192) * 64 + (b[j + 1] - 128))]
        ELSE bad
      ELSE IF c >= 224 /\ c <= 239 THEN
        IF /\ IsCont(b, j + 1) /\ IsCont(b, j + 2)
           /\ (c = 224 => b[j + 1] >= 160)
           /\ (c = 237 => b[j + 1] <= 159)
        THEN [ok |-> TRUE, i |-> j + 3,
              v |-> Append(st.v,
                      (c - 224) * 4096 + (b[j + 1] - 128) * 64 + (b[j + 2] - 128))]
        ELSE bad
      ELSE IF c >= 240 /\ c <= 244 THEN
        IF /\ IsCont(b, j + 1) /\ IsCont(b, j + 2) /\ IsCont(b, j + 3)
           /\ (c = 240 => b[j + 1] >= 144)
           /\ (c = 244 => b[j + 1] <= 143)
        THEN [ok |-> TRUE, i |-> j + 4,
              v |-> Append(st.v,
                      (c - 240) * 262144 + (b[j + 1] - 128) * 4096
                      + (b[j + 2] - 128) * 64 + (b[j + 3] - 128))]
        ELSE bad
      ELSE bad

RECURSIVE Utf8From(_, _, _, _)
\* the steps for the bytes lo..hi in order.  The range is split in halves and
\* the state after the first half is bound as a value (z \in {...}) before
\* the second half starts, which keeps TLC's evaluation depth logarithmic.
Utf8From(b, lo, hi, st) ==
    IF lo > hi THEN st
    ELSE IF lo = hi THEN Utf8Step(b, lo, st)
    ELSE CHOOSE r \in {Utf8From(b, ((lo + hi) \div 2) + 1, hi, z) :
                         z \in {Utf8From(b, lo, (lo + hi) \div 2, st)}} : TRUE

\* bytes.decode("utf-8"): the code points, or ok = FALSE (UnicodeDecodeError)
Utf8Decode(b) == Utf8From(b, 1, Len(b), [ok |-> TRUE, i |-> 1, v |-> <<>>])

RECURSIVE Utf8Range(_, _, _)
\* the UTF-8 encoding of the code points lo..hi of cps, all below 0x800
Utf8Range(cps, lo, hi) ==
    IF lo > hi THEN <<>>
    ELSE IF lo = hi
    THEN (IF cps[lo] < 128 THEN <<cps[lo]>>
          ELSE <<192 + (cps[lo] \div 64), 128 + (cps[lo] % 64)>>)
    ELSE Utf8Range(cps, lo, (lo + hi) \div 2) \o Utf8Range(cps, ((lo + hi) \div 2) + 1, hi)

\* str.encode() (UTF-8)
Utf8Encode(cps) == Utf8Range(cps, 1, Len(cps))

\* a returned value with the stream position after it
Ok(val, p) == [ok |-> TRUE, val |-> val, pos |-> p, err |-> "none"]
\* a raised exception
Raise(e, p) == [ok |-> FALSE, val |-> NoneV, pos |-> p, err |-> e]

\* the index of key in the pair sequence d, 0 when absent
KeyIndex(d, key) ==
    IF \E i \in 1..Len(d) : d[i][1] = key
    THEN CHOOSE i \in 1..Len(d) : d[i][1] = key
    ELSE 0

\* a dict that appends every pair, keeping earlier pairs with the same key
DictSetAppend(d, key, value) == Append(d, <<key, value>>)

\* result[key] = value on an OrderedDict: a new key is appended, an existing
\* key keeps its place and takes the new value
DictSet(d, key, value) ==
    IF KeyIndex(d, key) = 0
    THEN Append(d, <<key, value>>)
    ELSE [d EXCEPT ![KeyIndex(d, key)] = <<key, value>>]

\* key in obj
DictHas(d, key) == KeyIndex(d, key) # 0

\* obj.get(key): None when absent
DictGet(d, key) == IF KeyIndex(d, key) = 0 THEN NoneV ELSE d[KeyIndex(d, key)][2]

RECURSIVE read_object(_, _)
RECURSIVE read_dict(_, _, _)

\* header 0x10: 2-byte big-endian length, then that many bytes as UTF-8
ReadString(s, p1) ==
    LET lb == read(s, p1, 2)
        payload == read(s, p1 + Len(lb), from_bytes(lb))
        d == Utf8Decode(payload)
    IN IF d.ok THEN Ok(StrV(d.v), p1 + Len(lb) + Len(payload))
       ELSE Raise("UnicodeDecodeError", p1 + Len(lb) + Len(payload))

\* header 0x11: 2-byte big-endian length, then that many raw bytes
ReadBytes(s, p1) ==
    LET lb == read(s, p1, 2)
        payload == read(s, p1 + Len(lb), from_bytes(lb))
    IN Ok(BytesV(payload), p1 + Len(lb) + Len(payload))

\* header 0x01: 1 length byte (indexing an empty read raises IndexError),
\* then that many bytes as a big-endian integer
ReadInt(s, p1) ==
    LET lb == read(s, p1, 1)
    IN IF Len(lb) = 0 THEN Raise("IndexError", p1)
       ELSE LET payload == read(s, p1 + 1, lb[1])
            IN Ok(IntV(from_bytes(payload)), p1 + 1 + Len(payload))

read_object(s, p) ==
    LET hb == read(s, p, 1) IN
    IF Len(hb) = 0 THEN Ok(NoneV, p)
    ELSE LET header_byte == hb[1]
             p1 == p + 1
         IN CASE header_byte = TLV_DICT_START -> read_dict(s, p1, <<>>)
              [] header_byte = TLV_DICT_END -> Ok(NoneV, p1)
              [] header_byte = TLV_STRING -> ReadString(s, p1)
              [] header_byte = TLV_BYTES -> ReadBytes(s, p1)
              [] header_byte = TLV_INT -> ReadInt(s, p1)
              [] OTHER -> Raise("ValueError", p1)

\* the loop of read_dict, result the pairs read so far
read_dict(s, p, result) ==
    LET key == read_object(s, p) IN
    IF ~key.ok THEN key
    ELSE IF key.val.k = "none" THEN Ok(DictV(result), key.pos)
    ELSE IF key.val.k = "dict" THEN Raise("TypeError", key.pos)
    ELSE LET value == read_object(s, key.pos) IN
         IF ~value.ok THEN value
         ELSE read_dict(s, value.pos, DictSet(result, key.val, value.val))

-----------------------------------------------------------------------------
(* Library functions the script calls.  hashlib.md5 and AES are not part   *)
(* of the script: md5 is modelled by a small mixing function with a        *)
(* 16-byte digest, AES-CBC by a keyed byte-wise chaining cipher with       *)
(* 16-byte blocks.  Both keep the interface the script relies on (digest   *)
(* size, block size, chaining on the previous ciphertext block, the error  *)
(* on unaligned input); cryptographic strength is not modelled.            *)

MD5_DIGEST_SIZE == 16
KEY_SIZE == 32
IV_SIZE == 16
KDF_ITERATIONS == 1000

RECURSIVE MixFrom(_, _, _, _)
\* the bytes lo..hi of b mixed into h one after the other, the range split in
\* halves as in Utf8From
MixFrom(b, lo, hi, h) ==
    IF lo > hi THEN h
    ELSE IF lo = hi THEN (h * 31 + b[lo] + lo) % 65521
    ELSE CHOOSE r \in {MixFrom(b, ((lo + hi) \div 2) + 1, hi, z) :
                         z \in {MixFrom(b, lo, (lo + hi) \div 2, h)}} : TRUE

\* hashlib.md5(b).digest().  The mixed value is bound in a one-element set so
\* that TLC computes it once for all 16 bytes.
md5(b) ==
    CHOOSE d \in {[i \in 1..MD5_DIGEST_SIZE |->
                     (h * (2 * i + 1) + i * i + (h \div 256)) % 256] :
                  h \in {MixFrom(b, 1, Len(b), 7)}} : TRUE

HexChar(d) == IF d < 10 THEN 48 + d ELSE 87 + d

\* bytes.hex(): two lower-case hex characters per byte
Hex(b) ==
    [i \in 1..(2 * Len(b)) |->
        IF i % 2 = 1 THEN HexChar(b[(i + 1) \div 2] \div 16)
        ELSE HexChar(b[i \div 2] % 16)]

\* hashlib.md5(b).hexdigest()
hexdigest(b) == Hex(md5(b))

RECURSIVE Iterate(_, _)
\* md5 applied n times (n >= 1): the inner loop of openssl_kdf.  The chain is
\* split in halves and each half is bound as a value (z \in {...}) before
\* the next one starts, which keeps TLC's evaluation depth logarithmic.
Iterate(n, x) ==
    IF n = 1 THEN md5(x)
    ELSE CHOOSE r \in {Iterate(n - (n \div 2), z) : z \in {Iterate(n \div 2, x)}} : TRUE

RECURSIVE KdfLoop(_, _, _, _, _)
\* the while loop of openssl_kdf
KdfLoop(password, salt, count, result, prev) ==
    IF Len(result) >= KEY_SIZE + IV_SIZE
    THEN [key |-> SubSeq(result, 1, KEY_SIZE),
          iv |-> SubSeq(result, KEY_SIZE + 1, KEY_SIZE + IV_SIZE)]
    ELSE CHOOSE r \in {KdfLoop(password, salt, count, result \o temp, temp) :
                         temp \in {Iterate(count, prev \o password \o salt)}} : TRUE

\* OpenSSL EVP_BytesToKey: 1 iteration for an empty salt, 1000 otherwise
kdf(password, salt) ==
    KdfLoop(password, salt, IF salt = <<>> THEN 1 ELSE KDF_ITERATIONS, <<>>, <<>>)

\* the password and the salts of the generated inputs
Password == <<112, 119>>
Salts == {<<>>, <<115, 49>>}

\* kdf is a function of its arguments: its values for the salted inputs of
\* the model are tabulated once instead of being recomputed in every state
KdfTable == [salt \in Salts \ {<<>>} |-> kdf(Password, salt)]

openssl_kdf(password, salt) ==
    IF password = Password /\ salt \in DOMAIN KdfTable
    THEN KdfTable[salt]
    ELSE kdf(password, salt)

\* AES.new(key, AES.MODE_CBC, iv).decrypt(ct); ValueError on unaligned input
aes_cbc_decrypt(key, iv, ct) ==
    IF Len(ct) % AES_BLOCK_SIZE # 0
    THEN [ok |-> FALSE, v |-> <<>>, err |-> "ValueError"]
    ELSE [ok |-> TRUE, err |-> "none",
          v |-> [i \in 1..Len(ct) |->
                   (768 + ct[i] - key[((i - 1) % KEY_SIZE) + 1]
                        - (IF i <= AES_BLOCK_SIZE THEN iv[i]
                           ELSE ct[i - AES_BLOCK_SIZE])) % 256]]

\* unpadding that trusts the length byte without checking the pad bytes
strip_trusting_length(data) ==
    IF Len(data) = 0 THEN [ok |-> FALSE, v |-> <<>>, err |-> "ValueError"]
    ELSE IF Len(data) % AES_BLOCK_SIZE # 0
    THEN [ok |-> FALSE, v |-> <<>>, err |-> "ValueError"]
    ELSE LET pad_len == data[Len(data)] IN
      IF pad_len = 0 \/ pad_len > AES_BLOCK_SIZE
      THEN [ok |-> FALSE, v |-> <<>>, err |-> "ValueError"]
      ELSE [ok |-> TRUE, v |-> SubSeq(data, 1, Len(data) - pad_len), err |-> "none"]

strip_pkcs7_padding(data) ==
    IF Len(data) = 0 THEN [ok |-> FALSE, v |-> <<>>, err |-> "ValueError"]
    ELSE IF Len(data) % AES_BLOCK_SIZE # 0
    THEN [ok |-> FALSE, v |-> <<>>, err |-> "ValueError"]
    ELSE LET pad_len == data[Len(data)] IN
      IF pad_len = 0 \/ pad_len > AES_BLOCK_SIZE
      THEN [ok |-> FALSE, v |-> <<>>, err |-> "ValueError"]
      ELSE IF \E i \in 1..pad_len : data[Len(data) + 1 - i] # pad_len
      THEN [ok |-> FALSE, v |-> <<>>, err |-> "ValueError"]
      ELSE [ok |-> TRUE, v |-> SubSeq(data, 1, Len(data) - pad_len), err |-> "none"]

\* AES-CBC decryption under a derived key followed by unpadding
decrypt_cbc(ciphertext, kiv) ==
    LET plaintext == aes_cbc_decrypt(kiv.key, kiv.iv, ciphertext)
    IN IF plaintext.ok THEN strip_pkcs7_padding(plaintext.v) ELSE plaintext

decrypt_with_password(ciphertext, password, salt) ==
    decrypt_cbc(ciphertext, openssl_kdf(password, salt))

\* the value of a base64 alphabet character, -1 for any other character
B64Val(c) ==
    IF c >= 65 /\ c <= 90 THEN c - 65
    ELSE IF c >= 97 /\ c <= 122 THEN c - 71
    ELSE IF c >= 48 /\ c <= 57 THEN c + 4
    ELSE IF c = 43 THEN 62
    ELSE IF c = 47 THEN 63
    ELSE -1

\* one step of binascii.a2b_base64 in its default non-strict mode, on the
\* character at j: characters outside the alphabet are skipped, a completed
\* pad sequence ends the input (done)
B64Step(s, j, st) ==
    IF st.done THEN st
    ELSE LET c == s[j] IN
      IF c = 61 THEN
        IF st.quad_pos >= 2 /\ st.quad_pos + st.pads + 1 >= 4
        THEN [st EXCEPT !.done = TRUE]
        ELSE [st EXCEPT !.pads = IF st.quad_pos >= 2 THEN @ + 1 ELSE @]
      ELSE IF B64Val(c) = -1 THEN st
      ELSE LET d == B64Val(c) IN
        CASE st.quad_pos = 0 ->
               [quad_pos |-> 1, leftchar |-> d, pads |-> 0, acc |-> st.acc, done |-> FALSE]
          [] st.quad_pos = 1 ->
               [quad_pos |-> 2, leftchar |-> d % 16, pads |-> 0, done |-> FALSE,
                acc |-> Append(st.acc, st.leftchar * 4 + (d \div 16))]
          [] st.quad_pos = 2 ->
               [quad_pos |-> 3, leftchar |-> d % 4, pads |-> 0, done |-> FALSE,
                acc |-> Append(st.acc, st.leftchar * 16 + (d \div 4))]
          [] OTHER ->
               [quad_pos |-> 0, leftchar |-> 0, pads |-> 0, done |-> FALSE,
                acc |-> Append(st.acc, st.leftchar * 64 + d)]

RECURSIVE B64Loop(_, _, _, _)
\* the steps for the characters lo..hi in order, the range split in halves
\* as in Utf8From
B64Loop(s, lo, hi, st) ==
    IF lo > hi THEN st
    ELSE IF lo = hi THEN B64Step(s, lo, st)
    ELSE CHOOSE r \in {B64Loop(s, ((lo + hi) \div 2) + 1, hi, z) :
                         z \in {B64Loop(s, lo, (lo + hi) \div 2, st)}} : TRUE

\* base64.b64decode(s) of a str: ASCII only, then a2b_base64; a dangling
\* quad at the end of the input is an error
b64decode(s) ==
    IF \E i \in 1..Len(s) : s[i] > 127
    THEN [ok |-> FALSE, v |-> <<>>, err |-> "ValueError"]
    ELSE LET r == B64Loop(s, 1, Len(s),
                          [quad_pos |-> 0, leftchar |-> 0, pads |-> 0, acc |-> <<>>,
                           done |-> FALSE])
         IN IF ~r.done /\ r.quad_pos # 0
            THEN [ok |-> FALSE, v |-> <<>>, err |-> "ValueError"]
            ELSE [ok |-> TRUE, v |-> r.acc, err |-> "none"]

IsHexChar(c) ==
    (c >= 48 /\ c <= 57) \/ (c >= 97 /\ c <= 102) \/ (c >= 65 /\ c <= 70)

HexVal(c) == IF c <= 57 THEN c - 48 ELSE IF c <= 70 THEN c - 55 ELSE c - 87

\* bytes.fromhex of a string of hex digits: ValueError on an odd length
fromhex(s) ==
    IF Len(s) % 2 # 0 THEN [ok |-> FALSE, v |-> <<>>, err |-> "ValueError"]
    ELSE [ok |-> TRUE, err |-> "none",
          v |-> [i \in 1..(Len(s) \div 2) |->
                   HexVal(s[2 * i - 1]) * 16 + HexVal(s[2 * i])]]

\* a heuristic that falls back to the raw key when hex-decoding fails
hex_or_raw_lenient(key) ==
    IF (\A i \in 1..Len(key) : IsHexChar(key[i]))
       /\ Len(key) % 2 = 0
    THEN fromhex(key)
    ELSE [ok |-> TRUE, v |-> key, err |-> "none"]

\* lines 227-229: a session key of hex digits only is hex-decoded
hex_or_raw(key) ==
    IF \A i \in 1..Len(key) : IsHexChar(key[i])
    THEN fromhex(key)
    ELSE [ok |-> TRUE, v |-> key, err |-> "none"]

_decrypt_session_key(enc_key1, password, salt) ==
    LET enc_key1_bytes == b64decode(enc_key1) IN
    IF ~enc_key1_bytes.ok THEN enc_key1_bytes
    ELSE LET decrypted ==
                 decrypt_with_password(enc_key1_bytes.v, Utf8Encode(password), salt)
         IN IF ~decrypted.ok THEN decrypted ELSE hex_or_raw(decrypted.v)

-----------------------------------------------------------------------------
(* The metadata extractor.  Dictionary keys and the "type" values are      *)
(* strings, written here as their code points.                             *)

S_type == <<116, 121, 112, 101>>
S_metadata == <<109, 101, 116, 97, 100, 97, 116, 97>>
S_data == <<100, 97, 116, 97>>
S_enc_key1 == <<101, 110, 99, 95, 107, 101, 121, 49>>
S_salt == <<115, 97, 108, 116>>
S_compress == <<99, 111, 109, 112, 114, 101, 115, 115>>
S_file_md5 == <<102, 105, 108, 101, 95, 109, 100, 53>>

\* _ParsedMetadata.__init__
EmptyMetadata ==
    [enc_key1 |-> NoneV, salt |-> NoneV, compress |-> 0, file_md5_hash |-> NoneV,
     encrypted_chunks |-> <<>>]

\* str.encode("latin-1"): UnicodeEncodeError above U+00FF
Latin1Encode(str) ==
    IF \E i \in 1..Len(str) : str[i] > 255
    THEN [ok |-> FALSE, v |-> <<>>, err |-> "UnicodeEncodeError"]
    ELSE [ok |-> TRUE, v |-> str, err |-> "none"]

_extract_salt(obj) ==
    LET salt_value == DictGet(obj, StrV(S_salt)) IN
    IF salt_value.k = "str" THEN Latin1Encode(salt_value.v)
    ELSE IF salt_value.k = "bytes" THEN [ok |-> TRUE, v |-> salt_value.v, err |-> "none"]
    ELSE [ok |-> FALSE, v |-> <<>>, err |-> "TypeError"]

\* the outcome of an extractor call: the metadata as the call left it, and
\* the exception it raised, if any
Extracted(md, e) == [ok |-> e = "none", md |-> md, err |-> e]

\* lines 165-170
SetEncKey1(obj, r) ==
    IF ~r.ok \/ ~DictHas(obj, StrV(S_enc_key1)) THEN r
    ELSE LET enc_key1_value == DictGet(obj, StrV(S_enc_key1)) IN
         IF enc_key1_value.k # "str" THEN Extracted(r.md, "TypeError")
         ELSE Extracted([r.md EXCEPT !.enc_key1 = enc_key1_value], "none")

\* lines 172-173
SetSalt(obj, r) ==
    IF ~r.ok \/ ~DictHas(obj, StrV(S_salt)) THEN r
    ELSE LET salt == _extract_salt(obj) IN
         IF ~salt.ok THEN Extracted(r.md, salt.err)
         ELSE Extracted([r.md EXCEPT !.salt = BytesV(salt.v)], "none")

\* lines 175-180
SetCompress(obj, r) ==
    IF ~r.ok \/ ~DictHas(obj, StrV(S_compress)) THEN r
    ELSE LET compress_value == DictGet(obj, StrV(S_compress)) IN
         IF compress_value.k # "int" THEN Extracted(r.md, "TypeError")
         ELSE Extracted([r.md EXCEPT !.compress = compress_value.v], "none")

\* lines 182-187
SetFileMd5(obj, r) ==
    IF ~r.ok \/ ~DictHas(obj, StrV(S_file_md5)) THEN r
    ELSE LET file_md5_value == DictGet(obj, StrV(S_file_md5)) IN
         IF file_md5_value.k # "str" THEN Extracted(r.md, "TypeError")
         ELSE Extracted([r.md EXCEPT !.file_md5_hash = file_md5_value], "none")

_process_metadata_object(obj, md) ==
    SetFileMd5(obj, SetCompress(obj, SetSalt(obj, SetEncKey1(obj, Extracted(md, "none")))))

\* bool(value): None, 0 and the empty str, bytes and dict are false
Truthy(value) ==
    CASE value.k = "none" -> FALSE
      [] value.k = "int" -> value.v # 0
      [] OTHER -> Len(value.v) > 0

\* an extractor that puts each chunk in front of the ones before it
process_data_prepend(obj, md) ==
    LET chunk == DictGet(obj, StrV(S_data)) IN
    IF ~Truthy(chunk) THEN Extracted(md, "none")
    ELSE IF chunk.k # "bytes" THEN Extracted(md, "TypeError")
    ELSE Extracted([md EXCEPT !.encrypted_chunks = <<chunk.v>> \o @], "none")

_process_data_object(obj, md) ==
    LET chunk == DictGet(obj, StrV(S_data)) IN
    IF ~Truthy(chunk) THEN Extracted(md, "none")
    ELSE IF chunk.k # "bytes" THEN Extracted(md, "TypeError")
    ELSE Extracted([md EXCEPT !.encrypted_chunks = Append(@, chunk.v)], "none")

\* the body of the parse loop for one decoded value (lines 212-217)
ProcessObject(obj, md) ==
    IF obj.k # "dict" THEN Extracted(md, "none")
    ELSE LET obj_type == DictGet(obj.v, StrV(S_type)) IN
         IF obj_type = StrV(S_metadata) THEN _process_metadata_object(obj.v, md)
         ELSE IF obj_type = StrV(S_data) THEN _process_data_object(obj.v, md)
         ELSE Extracted(md, "none")

RECURSIVE DecryptFrom(_, _, _, _)
\* the loop of _decrypt_chunks from chunk i on; n counts the chunks decrypted
DecryptFrom(encrypted_chunks, kiv, i, acc) ==
    IF i > Len(encrypted_chunks) THEN [ok |-> TRUE, v |-> acc, err |-> "none", n |-> i - 1]
    ELSE LET decrypted_chunk == decrypt_cbc(encrypted_chunks[i], kiv) IN
         IF ~decrypted_chunk.ok
         THEN [ok |-> FALSE, v |-> <<>>, err |-> decrypted_chunk.err, n |-> i]
         ELSE DecryptFrom(encrypted_chunks, kiv, i + 1, acc \o decrypted_chunk.v)

_decrypt_chunks(encrypted_chunks, key) ==
    DecryptFrom(encrypted_chunks, openssl_kdf(key, <<>>), 1, <<>>)

\* the LZ4 frame magic number 0x184D2204, little-endian
LZ4_MAGIC == <<4, 34, 77, 24>>

\* lz4.frame.decompress, a library the script calls: modelled as a frame of
\* the magic number followed by the content stored as it is; anything else is
\* a malformed frame
lz4_decompress(frame) ==
    IF Len(frame) >= Len(LZ4_MAGIC) /\ SubSeq(frame, 1, Len(LZ4_MAGIC)) = LZ4_MAGIC
    THEN [ok |-> TRUE, v |-> SubSeq(frame, Len(LZ4_MAGIC) + 1, Len(frame)), err |-> "none"]
    ELSE [ok |-> FALSE, v |-> <<>>, err |-> "RuntimeError"]

\* a check that compares the digests case-insensitively
verify_md5_any_case(plaintext, expected_hash) ==
    IF expected_hash.k # "none" /\ Len(expected_hash.v) > 0
       /\ hexdigest(plaintext) #
            [i \in 1..Len(expected_hash.v) |->
               IF expected_hash.v[i] >= 65 /\ expected_hash.v[i] <= 90
               THEN expected_hash.v[i] + 32 ELSE expected_hash.v[i]]
    THEN "ValueError"
    ELSE "none"

\* the exception _verify_md5 raises, "none" when it returns
_verify_md5(plaintext, expected_hash) ==
    IF expected_hash.k # "none" /\ Len(expected_hash.v) > 0
       /\ hexdigest(plaintext) # expected_hash.v
    THEN "ValueError"
    ELSE "none"

\* data.startswith(MAGIC)
StartsWithMagic(bytes) ==
    Len(bytes) >= Len(MAGIC) /\ SubSeq(bytes, 1, Len(MAGIC)) = MAGIC

\* the offset of the TLV stream: magic (17 bytes) + MD5 hash (32 bytes)
STREAM_OFFSET == 49

-----------------------------------------------------------------------------
(* Input construction: value trees and their TLV encodings.  An integer of  *)
(* a tree to encode is [k |-> "intw", v |-> <<n, w>>]: the value n written  *)
(* in w payload bytes.                                                     *)

IntW(n, w) == [k |-> "intw", v |-> <<n, w>>]

RECURSIVE BigEndian(_, _)
BigEndian(n, w) ==
    IF w = 0 THEN <<>> ELSE Append(BigEndian(n \div 256, w - 1), n % 256)

RECURSIVE Enc(_)
RECURSIVE EncPairs(_)
Enc(t) ==
    CASE t.k = "str" ->
           LET u == Utf8Encode(t.v) IN <<TLV_STRING>> \o BigEndian(Len(u), 2) \o u
      [] t.k = "bytes" -> <<TLV_BYTES>> \o BigEndian(Len(t.v), 2) \o t.v
      [] t.k = "intw" -> <<TLV_INT, t.v[2]>> \o BigEndian(t.v[1], t.v[2])
      [] t.k = "dict" -> <<TLV_DICT_START>> \o EncPairs(t.v) \o <<TLV_DICT_END>>

EncPairs(ps) ==
    IF Len(ps) = 0 THEN <<>>
    ELSE Enc(ps[1][1]) \o Enc(ps[1][2]) \o EncPairs(Tail(ps))

RECURSIVE ValueOf(_)
\* the tree as encoded: every pair, in encoded order
ValueOf(t) ==
    CASE t.k = "intw" -> IntV(t.v[1])
      [] t.k = "dict" ->
           DictV([i \in 1..Len(t.v) |-> <<ValueOf(t.v[i][1]), ValueOf(t.v[i][2])>>])
      [] OTHER -> t

RECURSIVE Merged(_, _)
\* pairs ps folded left to right into acc: one entry per distinct key, at the
\* place of the key's first occurrence, holding the value of its last one
Merged(ps, acc) ==
    IF Len(ps) = 0 THEN acc
    ELSE LET key == ps[1][1]
             hit == {i \in 1..Len(acc) : acc[i][1] = key}
         IN Merged(Tail(ps),
                   IF hit = {} THEN Append(acc, ps[1])
                   ELSE [i \in 1..Len(acc) |-> IF i \in hit THEN ps[1] ELSE acc[i]])

RECURSIVE MapValueOf(_)
\* the tree as a mapping: ValueOf with the pairs of every map merged by key
MapValueOf(t) ==
    CASE t.k = "intw" -> IntV(t.v[1])
      [] t.k = "dict" ->
           DictV(Merged([i \in 1..Len(t.v) |->
                           <<MapValueOf(t.v[i][1]), MapValueOf(t.v[i][2])>>], <<>>))
      [] OTHER -> t

LeafKeys == {StrV(<<97>>), IntW(5, 1), IntW(5, 2)}
LeafValues == {StrV(<<97, 233>>), BytesV(<<255, 0>>), IntW(300, 2), DictV(<<>>)}
Leaves == LeafKeys \cup LeafValues \cup {StrV(<<>>), BytesV(<<>>), IntW(0, 0)}

PairSeqs(n) == UNION {[1..m -> LeafKeys \X LeafValues] : m \in 0..n}
BaseTrees == Leaves \cup {DictV(ps) : ps \in PairSeqs(MaxPairs)}

RECURSIVE Wrap(_, _)
\* t nested d maps deep
Wrap(t, d) ==
    IF d = 0 THEN t ELSE DictV(<< <<BytesV(<<97>>), Wrap(t, d - 1)>> >>)

Trees == {Wrap(t, d) : t \in BaseTrees, d \in 0..MaxDepth}

\* the trees whose encodings are also given truncated
CutTrees ==
    Leaves \cup {DictV(<< <<k, v>> >>) : k \in LeafKeys, v \in LeafValues}

\* what follows the first value in the stream
Tails == {<<>>, Enc(StrV(<<98>>)), <<TLV_DICT_END, TLV_INT, 1, 7>>, <<127>>}

-----------------------------------------------------------------------------
(* The decoder driven over one stream: read_object is called until it      *)
(* returns None or raises.  The stream is the encoding of tree followed by *)
(* tail, or the encoding of tree with its last cut bytes missing.          *)

Pending == [ok |-> FALSE, v |-> <<>>, err |-> "pending"]

TlvIdle ==
    /\ last = Ok(NoneV, 0) /\ out = <<>>
    /\ tree = NoneV /\ tail = <<>> /\ cut = 0 /\ calls = 0
RunIdle ==
    /\ file_data = <<>> /\ pc = "idle" /\ metadata = NoneV /\ session_key = <<>>
    /\ decrypted_data = <<>> /\ output = <<>> /\ writes = 0 /\ err = "none"
    /\ failed_at = "none" /\ steps = <<>> /\ objects = <<>> /\ decode_calls = 0
    /\ kdf_calls = 0 /\ aes_calls = 0 /\ layout = <<>> /\ profile = NoneV
PadIdle == buf = <<>> /\ unpadded = Pending
KeyIdle == plain_key = <<>> /\ key_salt = <<>> /\ enc_key = <<>> /\ key_result = Pending

InitTLV ==
    /\ PadIdle /\ KeyIdle /\ RunIdle
    /\ cut \in 0..MaxCut
    /\ tail \in Tails
    /\ tree \in Trees
    /\ cut > 0 => (tail = <<>> /\ tree \in CutTrees /\ cut < Len(Enc(tree)))
    /\ stream = SubSeq(Enc(tree) \o tail, 1, Len(Enc(tree) \o tail) - cut)
    /\ pos = 0
    /\ last = Ok(NoneV, 0)
    /\ out = <<>>
    /\ calls = 0

\* the caller's loop: it goes on after a value, stops on None or an exception
CanRead == calls = 0 \/ (last.ok /\ last.val.k # "none")

\* one call of read_object at the current position
TlvRead ==
    /\ CanRead
    /\ LET r == read_object(stream, pos) IN
       /\ last' = r
       /\ pos' = r.pos
       /\ out' = IF r.ok /\ r.val.k # "none" THEN Append(out, r.val) ELSE out
    /\ calls' = calls + 1
    /\ UNCHANGED <<stream, tree, tail, cut, padVars, keyVars, runVars>>

NextTLV == TlvRead

SpecTLV == InitTLV /\ [][NextTLV]_vars

\* read_object called on the bytes that follow the first value
NextRead == read_object(tail, 0)

\* C4: read_object raises, and returns no value, when the stream ends inside
\* a string, bytes or integer value: in its length prefix or before the
\* payload bytes the prefix declares.
C4_TruncationRaises ==
    (calls = 1 /\ cut > 0 /\ tree.k \in {"str", "bytes", "intw"}) => ~last.ok

-----------------------------------------------------------------------------
(* strip_pkcs7_padding applied to decrypted buffers.  A buffer is n bytes  *)
(* of fill whose last k bytes are v, with the byte at position at, if any, *)
(* replaced by w.                                                          *)

PadLengths ==
    {n \in 0..(MaxBlocks * AES_BLOCK_SIZE + 1) :
        n % AES_BLOCK_SIZE \in {0, 1, AES_BLOCK_SIZE - 1}}
PadBytes == {0, 1, 2, AES_BLOCK_SIZE - 1, AES_BLOCK_SIZE, AES_BLOCK_SIZE + 1, 255}

Buffer(n, k, v, fill, at, w) ==
    [i \in 1..n |-> IF i = at THEN w ELSE IF i > n - k THEN v ELSE fill]

\* PKCS7 padding of a plaintext: 1..16 bytes, each the pad length
Pkcs7Pad(x) ==
    LET p == AES_BLOCK_SIZE - (Len(x) % AES_BLOCK_SIZE)
    IN x \o [i \in 1..p |-> p]

InitPad ==
    /\ TlvIdle /\ KeyIdle /\ RunIdle /\ stream = <<>> /\ pos = 0
    /\ \E n \in PadLengths, k \in 0..(AES_BLOCK_SIZE + 1), v \in PadBytes,
          fill \in {0, 2, 65}, d \in {0, 1, 2, AES_BLOCK_SIZE, AES_BLOCK_SIZE + 1} :
         /\ k <= n
         /\ buf = Buffer(n, k, v, fill, IF d = 0 THEN 0 ELSE n + 1 - d, 3)
    /\ unpadded = Pending

Unpad ==
    /\ unpadded = Pending
    /\ unpadded' = strip_pkcs7_padding(buf)
    /\ UNCHANGED <<buf, stream, pos, tlvVars, keyVars, runVars>>

NextPad == Unpad

SpecPad == InitPad /\ [][NextPad]_vars

\* C9: strip_pkcs7_padding succeeds exactly on the buffers whose length is a
\* nonzero multiple of 16 and whose last byte p is in 1..16 and is the value
\* of each of the last p bytes; it then returns the buffer without its last
\* p bytes, so that a PKCS7-padded plaintext comes back exactly; in every
\* other case it fails and returns no plaintext.
C9_StrictUnpad ==
    unpadded # Pending =>
      LET n == Len(buf)
          valid == /\ n > 0
                   /\ n % 16 = 0
                   /\ buf[n] >= 1 /\ buf[n] <= 16
                   /\ \A i \in (n - buf[n] + 1)..n : buf[i] = buf[n]
      IN /\ unpadded.ok <=> valid
         /\ valid => unpadded.v = SubSeq(buf, 1, n - buf[n])
         /\ ~valid => unpadded.v = <<>> /\ unpadded.err = "ValueError"
         /\ \A m \in 0..n :
              buf = Pkcs7Pad(SubSeq(buf, 1, m)) =>
                unpadded.ok /\ unpadded.v = SubSeq(buf, 1, m)

\* a two-block buffer whose pad length byte is right and whose pad is broken
\* inside, rejected
C9_Witness ==
    /\ unpadded # Pending /\ ~unpadded.ok
    /\ Len(buf) = 2 * AES_BLOCK_SIZE
    /\ buf[Len(buf)] = 2 /\ buf[Len(buf) - 1] # 2

-----------------------------------------------------------------------------
(* _decrypt_session_key applied to the encryption of known session keys    *)

RECURSIVE EncBlocks(_, _, _)
\* the encryption aes_cbc_decrypt inverts: the first n blocks of the
\* ciphertext of pt, each block chained on the one before it
EncBlocks(kiv, pt, n) ==
    IF n = 0 THEN <<>>
    ELSE CHOOSE c \in
           {before \o [i \in 1..AES_BLOCK_SIZE |->
                         (pt[(n - 1) * AES_BLOCK_SIZE + i]
                          + kiv.key[(((n - 1) * AES_BLOCK_SIZE + i - 1) % KEY_SIZE) + 1]
                          + (IF n = 1 THEN kiv.iv[i]
                             ELSE before[(n - 2) * AES_BLOCK_SIZE + i])) % 256] :
            before \in {EncBlocks(kiv, pt, n - 1)}} : TRUE

\* AES-CBC encryption of the PKCS7-padded plaintext
Encrypt(pt, kiv) ==
    CHOOSE c \in {EncBlocks(kiv, p, Len(p) \div AES_BLOCK_SIZE) : p \in {Pkcs7Pad(pt)}} : TRUE

B64Char(d) ==
    IF d < 26 THEN 65 + d
    ELSE IF d < 52 THEN 71 + d
    ELSE IF d < 62 THEN d - 4
    ELSE IF d = 62 THEN 43 ELSE 47

\* the byte at index i of b, 0 past its end
ByteAt(b, i) == IF i <= Len(b) THEN b[i] ELSE 0

\* base64.b64encode
B64Encode(b) ==
    [j \in 1..(4 * ((Len(b) + 2) \div 3)) |->
        LET g == 3 * ((j - 1) \div 4)
            r == (j - 1) % 4
        IN CASE r = 0 -> B64Char(b[g + 1] \div 4)
             [] r = 1 -> B64Char((b[g + 1] % 4) * 16 + (ByteAt(b, g + 2) \div 16))
             [] r = 2 -> IF g + 2 > Len(b) THEN 61
                         ELSE B64Char((b[g + 2] % 16) * 4 + (ByteAt(b, g + 3) \div 64))
             [] OTHER -> IF g + 3 > Len(b) THEN 61 ELSE B64Char(b[g + 3] % 64)]

\* enc_key1 for a session key: base64 of its encryption under the password
EncKey1(plain, password, salt) ==
    CHOOSE e \in
      {B64Encode(ct) :
         ct \in {Encrypt(plain, kiv) :
                   kiv \in {openssl_kdf(Utf8Encode(password), salt)}}} : TRUE

\* the bytes at and next to the ends of the hex digit ranges
KeyBytes == {47, 48, 57, 58, 64, 65, 70, 71, 96, 97, 102, 103}
KeySeqs == UNION {[1..m -> KeyBytes] : m \in 0..MaxKeyLen}

InitKey ==
    /\ TlvIdle /\ PadIdle /\ RunIdle /\ stream = <<>> /\ pos = 0
    /\ plain_key \in KeySeqs
    /\ key_salt \in Salts
    /\ key_salt # <<>> => Len(plain_key) <= 1
    /\ enc_key = EncKey1(plain_key, Password, key_salt)
    /\ key_result = Pending

DecryptSessionKey ==
    /\ key_result = Pending
    /\ key_result' = _decrypt_session_key(enc_key, Password, key_salt)
    /\ UNCHANGED <<plain_key, key_salt, enc_key, stream, pos, tlvVars, padVars, runVars>>

NextKey == DecryptSessionKey

SpecKey == InitKey /\ [][NextKey]_vars

AllHex(b) == \A i \in 1..Len(b) : IsHexChar(b[i])
Lower(s) == [i \in 1..Len(s) |-> IF s[i] >= 65 /\ s[i] <= 90 THEN s[i] + 32 ELSE s[i]]

\* C7 as stated: whatever the decrypted session key, the step succeeds; a key
\* of hex digits only yields its hex-decoding, any other key itself.
C7_HeuristicNeverFails ==
    key_result # Pending =>
      /\ key_result.ok
      /\ AllHex(plain_key) => Hex(key_result.v) = Lower(plain_key)
      /\ ~AllHex(plain_key) => key_result.v = plain_key

\* C7 (amended): a decrypted session key of hex digits only and of even
\* length yields its hex-decoding; one of hex digits only and of odd length
\* fails the step with a ValueError; one with any non-hex byte is used
\* unchanged.
C7_HexOrRaw ==
    key_result # Pending =>
      /\ (AllHex(plain_key) /\ Len(plain_key) % 2 = 0) =>
           key_result.ok /\ Hex(key_result.v) = Lower(plain_key)
              /\ 2 * Len(key_result.v) = Len(plain_key)
      /\ (AllHex(plain_key) /\ Len(plain_key) % 2 = 1) =>
           ~key_result.ok /\ key_result.err = "ValueError"
      /\ ~AllHex(plain_key) => key_result.ok /\ key_result.v = plain_key

\* an odd number of hex digits: the step fails
C7_Witness ==
    /\ key_result # Pending /\ ~key_result.ok
    /\ Len(plain_key) = 3 /\ AllHex(plain_key)

-----------------------------------------------------------------------------
(* decrypt_cloudsync run on generated files.  A file is a header followed  *)
(* by the top-level items named by its layout; the profile chooses the     *)
(* variant of each metadata field, of the payload of item "B" and of the   *)
(* header.  Item "A" is a well-formed data object.                         *)

\* top-level items of a generated file
MaxItems == 3

ItemKinds == {"meta", "A", "B", "other", "str", "end", "junk"}
Layouts == UNION {[1..m -> ItemKinds] : m \in 0..MaxItems}

Base ==
    [key |-> "hex", salt |-> "str", compress |-> "absent", md5 |-> "lower",
     dataB |-> "bytes", lz |-> FALSE, hdr |-> "ok"]

Profiles ==
    {Base}
    \cup {[Base EXCEPT !.key = x] :
            x \in {"upper", "raw", "oddhex", "badpad", "badb64", "int", "absent"}}
    \cup {[Base EXCEPT !.salt = x] : x \in {"bytes", "empty", "wide", "int", "absent"}}
    \cup {[Base EXCEPT !.compress = x, !.lz = y] :
            x \in {"zero", "one", "two", "str"}, y \in BOOLEAN}
    \cup {[Base EXCEPT !.md5 = x] : x \in {"upper", "wrong", "empty", "int", "absent"}}
    \cup {[Base EXCEPT !.dataB = x] :
            x \in {"empty", "absent", "zero", "int", "emptystr", "str", "emptydict",
                   "unaligned", "badpad"}}
    \cup {[Base EXCEPT !.hdr = x] : x \in {"badmagic", "short", "nofiller"}}

\* the layouts every profile is combined with; Base is combined with all
MainLayouts == {<<"meta", "A", "B">>, <<"B", "meta">>}

\* the session key as enc_key1 holds it
KeyText(P) ==
    CASE P.key = "upper" -> <<54, 66, 51, 49>>
      [] P.key = "raw" -> <<107, 33>>
      [] P.key = "oddhex" -> <<97, 98, 99>>
      [] OTHER -> <<54, 98, 51, 49>>

\* the session key the chunks are encrypted under
ChunkKey(P) == IF P.key = "raw" THEN <<107, 33>> ELSE <<107, 49>>

SaltBytes(P) == IF P.salt = "empty" THEN <<>> ELSE <<115, 49>>

PlainA(P) == IF P.lz THEN LZ4_MAGIC \o <<104, 105>> ELSE <<104, 105>>
PlainB == <<48, 49, 50, 51, 52, 53, 54, 55, 56, 57, 97, 98, 99, 100, 101, 102>>

CipherOf(plain, P) ==
    CHOOSE c \in {Encrypt(plain, kiv) : kiv \in {openssl_kdf(ChunkKey(P), <<>>)}} : TRUE

\* the last byte changed: the pad of the decryption is no longer valid
Damaged(c) == [c EXCEPT ![Len(c)] = (@ + 1) % 256]

RECURSIVE Flatten(_)
Flatten(ss) == IF Len(ss) = 0 THEN <<>> ELSE ss[1] \o Flatten(Tail(ss))

\* the layout up to its first "end" item
RECURSIVE Parsed(_)
Parsed(L) ==
    IF Len(L) = 0 \/ L[1] = "end" THEN <<>> ELSE <<L[1]>> \o Parsed(Tail(L))

\* the plaintexts of the chunks the items of L carry, in order
ChunkPlains(L, P) ==
    LET carries(i) == L[i] = "A" \/ (L[i] = "B" /\ P.dataB = "bytes")
    IN Flatten([i \in 1..Len(L) |->
                  IF ~carries(i) THEN <<>>
                  ELSE IF L[i] = "A" THEN <<PlainA(P)>> ELSE <<PlainB>>])

\* the plaintext a run on the file is to end with
FinalPlain(L, P) ==
    LET whole == Flatten(ChunkPlains(Parsed(L), P))
    IN IF P.compress \in {"one", "two"} /\ lz4_decompress(whole).ok
       THEN lz4_decompress(whole).v
       ELSE whole

Upper(text) ==
    [i \in 1..Len(text) |-> IF text[i] >= 97 /\ text[i] <= 122 THEN text[i] - 32 ELSE text[i]]

IntW1(n) == IntW(n, 1)

Md5Field(L, P) ==
    CASE P.md5 = "lower" -> <<StrV(hexdigest(FinalPlain(L, P)))>>
      [] P.md5 = "upper" -> <<StrV(Upper(hexdigest(FinalPlain(L, P))))>>
      [] P.md5 = "wrong" -> <<StrV(hexdigest(<<0>> \o FinalPlain(L, P)))>>
      [] P.md5 = "empty" -> <<StrV(<<>>)>>
      [] P.md5 = "int" -> <<IntW1(5)>>
      [] OTHER -> <<>>

EncKey1Field(P) ==
    CASE P.key = "absent" -> <<>>
      [] P.key = "int" -> <<IntW1(7)>>
      [] P.key = "badb64" -> <<StrV(<<81, 85, 74, 68, 82>>)>>
      [] P.key = "badpad" ->
           <<StrV(CHOOSE e \in
                    {B64Encode(Damaged(ct)) :
                       ct \in {Encrypt(KeyText(P), kiv) :
                                 kiv \in {openssl_kdf(Password, SaltBytes(P))}}} : TRUE)>>
      [] OTHER -> <<StrV(EncKey1(KeyText(P), Password, SaltBytes(P)))>>

SaltField(P) ==
    CASE P.salt = "absent" -> <<>>
      [] P.salt = "int" -> <<IntW1(9)>>
      [] P.salt = "wide" -> <<StrV(<<115, 257>>)>>
      [] P.salt = "str" -> <<StrV(SaltBytes(P))>>
      [] OTHER -> <<BytesV(SaltBytes(P))>>

CompressField(P) ==
    CASE P.compress = "absent" -> <<>>
      [] P.compress = "zero" -> <<IntW1(0)>>
      [] P.compress = "one" -> <<IntW1(1)>>
      [] P.compress = "two" -> <<IntW1(2)>>
      [] OTHER -> <<StrV(<<49>>)>>

\* the pairs <<name, value>> for the fields that are present
Field(name, value) == IF Len(value) = 0 THEN <<>> ELSE << <<StrV(name), value[1]>> >>

MetaTree(L, P) ==
    DictV(<< <<StrV(S_type), StrV(S_metadata)>> >>
          \o Field(S_enc_key1, EncKey1Field(P))
          \o Field(S_salt, SaltField(P))
          \o Field(S_compress, CompressField(P))
          \o Field(S_file_md5, Md5Field(L, P)))

DataBField(P) ==
    CASE P.dataB = "bytes" -> <<BytesV(CipherOf(PlainB, P))>>
      [] P.dataB = "empty" -> <<BytesV(<<>>)>>
      [] P.dataB = "absent" -> <<>>
      [] P.dataB = "zero" -> <<IntW1(0)>>
      [] P.dataB = "int" -> <<IntW1(7)>>
      [] P.dataB = "emptystr" -> <<StrV(<<>>)>>
      [] P.dataB = "str" -> <<StrV(<<120>>)>>
      [] P.dataB = "emptydict" -> <<DictV(<<>>)>>
      [] P.dataB = "unaligned" ->
           <<BytesV(SubSeq(CipherOf(PlainB, P), 1, AES_BLOCK_SIZE - 1))>>
      [] OTHER -> <<BytesV(Damaged(CipherOf(PlainB, P)))>>

DataTree(value) == DictV(<< <<StrV(S_type), StrV(S_data)>> >> \o Field(S_data, value))

OtherTree ==
    DictV(<< <<StrV(<<111, 116, 104, 101, 114>>), StrV(S_data)>>, <<StrV(S_data), BytesV(<<1>>)>> >>)

\* the top-level values of the items, by kind ("end" and "junk" are single
\* bytes, not values)
ItemTrees(L, P) ==
    CHOOSE f \in
      {[kind \in ItemKinds \ {"end", "junk"} |->
          CASE kind = "meta" -> m
            [] kind = "A" -> a
            [] kind = "B" -> b
            [] kind = "other" -> OtherTree
            [] OTHER -> StrV(<<120>>)] :
       m \in {MetaTree(L, P)},
       a \in {DataTree(<<BytesV(CipherOf(PlainA(P), P))>>)},
       b \in {DataTree(DataBField(P))}} : TRUE

\* the encodings of the items, by kind
ItemBytes(L, P) ==
    CHOOSE g \in
      {[kind \in ItemKinds |->
          CASE kind = "end" -> <<TLV_DICT_END>>
            [] kind = "junk" -> <<127>>
            [] OTHER -> Enc(f[kind])] : f \in {ItemTrees(L, P)}} : TRUE

Filler == [i \in 1..(STREAM_OFFSET - Len(MAGIC)) |-> 48]

Header(P) ==
    CASE P.hdr = "ok" -> MAGIC \o Filler
      [] P.hdr = "badmagic" -> [MAGIC EXCEPT ![Len(MAGIC)] = 94] \o Filler
      [] P.hdr = "short" -> SubSeq(MAGIC, 1, Len(MAGIC) - 1)
      [] OTHER -> MAGIC

File(L, P) ==
    CHOOSE bytes \in
      {Header(P) \o Flatten([i \in 1..Len(L) |-> f[L[i]]]) : f \in {ItemBytes(L, P)}} : TRUE

Init ==
    /\ TlvIdle /\ PadIdle /\ KeyIdle
    /\ layout \in Layouts
    /\ profile \in Profiles
    /\ profile # Base => layout \in MainLayouts
    /\ file_data = File(layout, profile)
    /\ stream = <<>> /\ pos = 0
    /\ pc = "ReadHeader"
    /\ metadata = EmptyMetadata
    /\ session_key = <<>> /\ decrypted_data = <<>>
    /\ output = <<>> /\ writes = 0
    /\ err = "none" /\ failed_at = "none"
    /\ steps = <<>> /\ objects = <<>>
    /\ decode_calls = 0 /\ kdf_calls = 0 /\ aes_calls = 0

\* an exception leaves decrypt_cloudsync: the run is over
Fail(e) == pc' = "Failed" /\ err' = e /\ failed_at' = pc

Succeed(next) ==
    pc' = next /\ steps' = Append(steps, pc) /\ UNCHANGED <<err, failed_at>>

\* a header check that accepts any file
ReadHeaderUnchecked ==
    /\ pc = "ReadHeader"
    /\ stream' = SubSeq(file_data, STREAM_OFFSET + 1, Len(file_data)) /\ pos' = 0
    /\ Succeed("ParseStream")
    /\ UNCHANGED <<file_data, metadata, session_key, decrypted_data, output, writes,
                   objects, decode_calls, kdf_calls, aes_calls, layout, profile,
                   tlvVars, padVars, keyVars>>

\* lines 256-264
ReadHeader ==
    /\ pc = "ReadHeader"
    /\ IF ~StartsWithMagic(file_data)
       THEN Fail("ValueError") /\ UNCHANGED <<stream, pos, steps>>
       ELSE /\ stream' = SubSeq(file_data, STREAM_OFFSET + 1, Len(file_data))
            /\ pos' = 0
            /\ Succeed("ParseStream")
    /\ UNCHANGED <<file_data, metadata, session_key, decrypted_data, output, writes,
                   objects, decode_calls, kdf_calls, aes_calls, layout, profile,
                   tlvVars, padVars, keyVars>>

\* a parse loop that stops only at the end of the stream, going on after a
\* 0x40 byte
ParseObjectPastEnd ==
    /\ pc = "ParseStream"
    /\ decode_calls' = decode_calls + 1
    /\ LET r == read_object(stream, pos) IN
       IF ~r.ok
       THEN Fail(r.err) /\ UNCHANGED <<pos, steps, metadata, objects>>
       ELSE IF r.val.k = "none" /\ r.pos >= Len(stream)
       THEN pos' = r.pos /\ Succeed("DeriveSessionKey") /\ UNCHANGED <<metadata, objects>>
       ELSE LET x == ProcessObject(r.val, metadata) IN
            /\ pos' = r.pos
            /\ metadata' = x.md
            /\ IF x.ok
               THEN objects' = Append(objects, r.val)
                    /\ UNCHANGED <<pc, err, failed_at, steps>>
               ELSE Fail(x.err) /\ UNCHANGED <<steps, objects>>
    /\ UNCHANGED <<file_data, stream, session_key, decrypted_data, output, writes,
                   kdf_calls, aes_calls, layout, profile, tlvVars, padVars, keyVars>>

\* one turn of the loop of _parse_cloudsync_stream (lines 207-217)
ParseObject ==
    /\ pc = "ParseStream"
    /\ decode_calls' = decode_calls + 1
    /\ LET r == read_object(stream, pos) IN
       IF ~r.ok
       THEN Fail(r.err) /\ UNCHANGED <<pos, steps, metadata, objects>>
       ELSE IF r.val.k = "none"
       THEN pos' = r.pos /\ Succeed("DeriveSessionKey") /\ UNCHANGED <<metadata, objects>>
       ELSE LET x == ProcessObject(r.val, metadata) IN
            /\ pos' = r.pos
            /\ metadata' = x.md
            /\ IF x.ok
               THEN objects' = Append(objects, r.val)
                    /\ UNCHANGED <<pc, err, failed_at, steps>>
               ELSE Fail(x.err) /\ UNCHANGED <<steps, objects>>
    /\ UNCHANGED <<file_data, stream, session_key, decrypted_data, output, writes,
                   kdf_calls, aes_calls, layout, profile, tlvVars, padVars, keyVars>>

\* lines 267-272
DeriveSessionKey ==
    /\ pc = "DeriveSessionKey"
    /\ IF metadata.enc_key1.k = "none" \/ metadata.salt.k = "none"
       THEN Fail("ValueError") /\ UNCHANGED <<session_key, steps, kdf_calls, aes_calls>>
       ELSE LET r == _decrypt_session_key(metadata.enc_key1.v, Password, metadata.salt.v)
                reached == IF b64decode(metadata.enc_key1.v).ok THEN 1 ELSE 0
            IN /\ kdf_calls' = kdf_calls + reached
               /\ aes_calls' = aes_calls + reached
               /\ IF r.ok
                  THEN session_key' = r.v /\ Succeed("DecryptChunks")
                  ELSE Fail(r.err) /\ UNCHANGED <<session_key, steps>>
    /\ UNCHANGED <<file_data, stream, pos, metadata, decrypted_data, output, writes,
                   objects, decode_calls, layout, profile, tlvVars, padVars, keyVars>>

\* line 275
DecryptChunks ==
    /\ pc = "DecryptChunks"
    /\ LET r == _decrypt_chunks(metadata.encrypted_chunks, session_key) IN
       /\ kdf_calls' = kdf_calls + r.n
       /\ aes_calls' = aes_calls + r.n
       /\ IF r.ok
          THEN /\ decrypted_data' = r.v
               /\ Succeed(IF metadata.compress # 0 THEN "Decompress" ELSE "VerifyChecksum")
          ELSE Fail(r.err) /\ UNCHANGED <<decrypted_data, steps>>
    /\ UNCHANGED <<file_data, stream, pos, metadata, session_key, output, writes,
                   objects, decode_calls, layout, profile, tlvVars, padVars, keyVars>>

\* lines 278-279
Decompress ==
    /\ pc = "Decompress"
    /\ LET r == lz4_decompress(decrypted_data) IN
       IF r.ok
       THEN decrypted_data' = r.v /\ Succeed("VerifyChecksum")
       ELSE Fail(r.err) /\ UNCHANGED <<decrypted_data, steps>>
    /\ UNCHANGED <<file_data, stream, pos, metadata, session_key, output, writes,
                   objects, decode_calls, kdf_calls, aes_calls, layout, profile,
                   tlvVars, padVars, keyVars>>

\* a checksum step that records the mismatch and goes on to Done
VerifyChecksumGoesOn ==
    /\ pc = "VerifyChecksum"
    /\ pc' = "Done"
    /\ err' = _verify_md5(decrypted_data, metadata.file_md5_hash)
    /\ failed_at' = IF err' = "none" THEN failed_at ELSE pc
    /\ steps' = IF err' = "none" THEN Append(steps, pc) ELSE steps
    /\ UNCHANGED <<file_data, stream, pos, metadata, session_key, decrypted_data, output,
                   writes, objects, decode_calls, kdf_calls, aes_calls, layout, profile,
                   tlvVars, padVars, keyVars>>

\* line 282
VerifyChecksum ==
    /\ pc = "VerifyChecksum"
    /\ LET e == _verify_md5(decrypted_data, metadata.file_md5_hash) IN
       IF e = "none" THEN Succeed("Done") ELSE Fail(e) /\ UNCHANGED steps
    /\ UNCHANGED <<file_data, stream, pos, metadata, session_key, decrypted_data, output,
                   writes, objects, decode_calls, kdf_calls, aes_calls, layout, profile,
                   tlvVars, padVars, keyVars>>

\* line 283: the plaintext is handed to the output
WriteOutput ==
    /\ pc = "Done" /\ writes = 0
    /\ output' = decrypted_data
    /\ writes' = writes + 1
    /\ UNCHANGED <<file_data, stream, pos, pc, metadata, session_key, decrypted_data,
                   err, failed_at, steps, objects, decode_calls, kdf_calls, aes_calls,
                   layout, profile, tlvVars, padVars, keyVars>>

Next ==
    \/ ReadHeader
    \/ ParseObject
    \/ DeriveSessionKey
    \/ DecryptChunks
    \/ Decompress
    \/ VerifyChecksum
    \/ WriteOutput

Spec == Init /\ [][Next]_vars

\* the values and the chunk plaintexts of the items of the layout L
ItemValues(L, P) ==
    CHOOSE vs \in {[i \in 1..Len(L) |-> MapValueOf(f[L[i]])] : f \in {ItemTrees(L, P)}} : TRUE

\* the non-empty bytes payloads of the data items of L, in order
Payloads(L, P) ==
    CHOOSE cs \in
      {Flatten([i \in 1..Len(L) |->
          IF L[i] \in {"A", "B"} /\ DictHas(f[L[i]].v, StrV(S_data))
             /\ DictGet(f[L[i]].v, StrV(S_data)).k = "bytes"
             /\ Len(DictGet(f[L[i]].v, StrV(S_data)).v) > 0
          THEN <<DictGet(f[L[i]].v, StrV(S_data)).v>>
          ELSE <<>>]) : f \in {ItemTrees(L, P)}} : TRUE

\* the offset in the stream right after the items of L
OffsetAfter(L, P) ==
    CHOOSE n \in {Len(Flatten([i \in 1..Len(L) |-> g[L[i]]])) : g \in {ItemBytes(L, P)}} : TRUE

IsPrefix(a, b) == Len(a) <= Len(b) /\ a = SubSeq(b, 1, Len(a))

Has(seq, x) == \E i \in 1..Len(seq) : seq[i] = x

\* C1: when the file does not start with the magic marker the run fails at
\* ReadHeader with nothing done: no value decoded, no key derived, no AES
\* decryption, no output.
C1_BadMagicFailsFirst ==
    ~StartsWithMagic(file_data) =>
        /\ pc \in {"ReadHeader", "Failed"}
        /\ pc = "Failed" => (failed_at = "ReadHeader" /\ err = "ValueError")
        /\ steps = <<>> /\ objects = <<>>
        /\ decode_calls = 0 /\ kdf_calls = 0 /\ aes_calls = 0
        /\ writes = 0 /\ output = <<>>

\* a run on a file with a wrong 17th byte has failed
C1_Witness ==
    /\ pc = "Failed" /\ profile.hdr = "badmagic" /\ Len(layout) > 0
    /\ ~StartsWithMagic(file_data) /\ Len(file_data) > STREAM_OFFSET

\* the steps a run that writes has gone through
StepOrder ==
    <<"ReadHeader", "ParseStream", "DeriveSessionKey", "DecryptChunks">>
    \o (IF metadata.compress # 0 THEN <<"Decompress">> ELSE <<>>)
    \o <<"VerifyChecksum">>

C2_State ==
    /\ writes <= 1
    /\ writes = 1 =>
           (pc = "Done" /\ steps = StepOrder /\ err = "none" /\ output = decrypted_data)
    /\ pc = "Done" => steps = StepOrder
    /\ Has(steps, "ParseStream") => IsPrefix(steps, StepOrder)
    /\ ~Has(steps, "ParseStream") => steps \in {<<>>, <<"ReadHeader">>}
    /\ pc = "Failed" =>
           (writes = 0 /\ output = <<>> /\ err # "none" /\ ~Has(steps, failed_at))
    /\ pc # "Failed" => (err = "none" /\ failed_at = "none")

\* C2: output is written at most once, only in Done and only after
\* ReadHeader, ParseStream, DeriveSessionKey, DecryptChunks, Decompress (when
\* compress is set) and VerifyChecksum succeeded in that order; a failing
\* step moves the run to Failed, where nothing is written and nothing runs
\* again.
C2_WriteOnlyAfterAllSteps ==
    /\ []C2_State
    /\ [][/\ pc # "Failed"
          /\ writes' # writes => (pc = "Done" /\ pc' = "Done")
          /\ pc' = "Failed" => (failed_at' = pc /\ steps' = steps /\ writes' = 0)
          /\ pc' \notin {pc, "Failed"} => steps' = Append(steps, pc)]_vars

\* a compressed file was decrypted, decompressed, verified and written
C2_Witness ==
    /\ writes = 1 /\ Has(steps, "Decompress") /\ Len(output) > 0
    /\ Len(metadata.encrypted_chunks) = 2

\* VerifyChecksum has run with a file_md5 extracted
Verified ==
    /\ metadata # NoneV
    /\ metadata.file_md5_hash.k = "str"
    /\ Has(steps, "VerifyChecksum") \/ failed_at = "VerifyChecksum"

\* C3 as stated: with a file_md5 extracted, VerifyChecksum passes exactly when
\* the hex digest of the final plaintext equals it compared case-insensitively.
C3_AnyCaseDigest ==
    Verified =>
        (Has(steps, "VerifyChecksum")
           <=> hexdigest(decrypted_data) = Lower(metadata.file_md5_hash.v))

\* C3: with a non-empty file_md5 extracted, VerifyChecksum passes exactly when
\* the lower-case hex digest of the final plaintext equals it character for
\* character; an empty file_md5 passes without a comparison; a run that does
\* not pass fails with nothing written.
C3_ExactDigest ==
    Verified =>
        /\ Has(steps, "VerifyChecksum")
             <=> (\/ metadata.file_md5_hash.v = <<>>
                  \/ hexdigest(decrypted_data) = metadata.file_md5_hash.v)
        /\ ~Has(steps, "VerifyChecksum") =>
             (pc = "Failed" /\ err = "ValueError" /\ writes = 0)

\* the right digest in upper case was rejected
C3_Witness ==
    /\ failed_at = "VerifyChecksum"
    /\ metadata.file_md5_hash.k = "str"
    /\ metadata.file_md5_hash.v # hexdigest(decrypted_data)
    /\ Lower(metadata.file_md5_hash.v) = hexdigest(decrypted_data)

\* the field name of obj holds a value of a kind other than kinds
WrongKind(obj, name, kinds) ==
    DictHas(obj.v, StrV(name)) /\ DictGet(obj.v, StrV(name)).k \notin kinds

\* an empty str, bytes or map
EmptyValue(value) == value.k \in {"str", "bytes", "dict"} /\ Len(value.v) = 0

WronglyTyped(obj) ==
    /\ obj.k = "dict"
    /\ \/ /\ DictGet(obj.v, StrV(S_type)) = StrV(S_metadata)
          /\ \/ WrongKind(obj, S_enc_key1, {"str"})
             \/ WrongKind(obj, S_salt, {"str", "bytes"})
             \/ WrongKind(obj, S_compress, {"int"})
             \/ WrongKind(obj, S_file_md5, {"str"})
       \/ /\ DictGet(obj.v, StrV(S_type)) = StrV(S_data)
          /\ WrongKind(obj, S_data, {"bytes"})
          /\ ~EmptyValue(DictGet(obj.v, StrV(S_data)))

\* C6: a metadata or data object holding a recognised field of a type other
\* than its declared one makes extraction fail; only an absent or empty data
\* value is skipped, so no object the extractor went past without an error
\* holds a wrongly typed value.
C6_StrictTyping ==
    \A i \in 1..Len(objects) : ~WronglyTyped(objects[i])

\* C8 as stated: after ParseStream the chunk list holds the non-empty data
\* payloads of all the top-level data objects of the stream, in order.
C8_AllDataObjects ==
    (profile # NoneV /\ profile.hdr = "ok" /\ Has(steps, "ParseStream")) =>
        metadata.encrypted_chunks = Payloads(layout, profile)

\* C8: after ParseStream the chunk list holds the non-empty data payloads of
\* the top-level data objects encoded before the first top-level 0x40 byte,
\* in stream order; the plaintext DecryptChunks produces is the concatenation
\* of their decryptions in that order.
C8_ChunksInOrder ==
    (profile # NoneV /\ profile.hdr = "ok" /\ Has(steps, "ParseStream")) =>
        /\ metadata.encrypted_chunks = Payloads(Parsed(layout), profile)
        /\ (Len(steps) > 0 /\ steps[Len(steps)] = "DecryptChunks") =>
             decrypted_data = Flatten(ChunkPlains(Parsed(layout), profile))

\* two data objects with a metadata object between them were parsed and
\* their chunks decrypted to the two plaintexts in stream order
C8_Witness ==
    /\ steps # <<>> /\ steps[Len(steps)] = "DecryptChunks"
    /\ Len(metadata.encrypted_chunks) = 2
    /\ metadata.encrypted_chunks[1] # metadata.encrypted_chunks[2]
    /\ layout[2] = "meta"
    /\ decrypted_data = PlainA(profile) \o PlainB

\* C10: the parse loop ends at the first top-level None, at the end of the
\* stream or at a 0x40 byte: nothing after that byte is read, decoded or
\* extracted, and the bytes left unread raise no error.
C10_StopsAtFirstAbsent ==
    (profile # NoneV /\ profile.hdr = "ok" /\ pc # "ReadHeader") =>
        /\ decode_calls <= Len(Parsed(layout)) + 1
        /\ Len(objects) <= Len(Parsed(layout))
        /\ pos <= OffsetAfter(Parsed(layout), profile)
                    + (IF Len(Parsed(layout)) < Len(layout) THEN 1 ELSE 0)
        /\ ~Has(Parsed(layout), "meta") =>
             (/\ metadata.enc_key1 = NoneV /\ metadata.salt = NoneV
              /\ metadata.compress = 0 /\ metadata.file_md5_hash = NoneV)
        /\ (profile = Base /\ ~Has(Parsed(layout), "junk")) => failed_at # "ParseStream"
        /\ Has(steps, "ParseStream") =>
             /\ decode_calls = Len(Parsed(layout)) + 1
             /\ objects = ItemValues(Parsed(layout), profile)
             /\ pos = OffsetAfter(Parsed(layout), profile)
                        + (IF Len(Parsed(layout)) < Len(layout) THEN 1 ELSE 0)

\* parsing ended at a 0x40 byte with undecodable bytes and a data object
\* left unread
C10_Witness ==
    /\ Has(steps, "ParseStream")
    /\ Len(layout) = 3 /\ layout[1] = "end" /\ layout[2] = "junk" /\ layout[3] = "A"
    /\ pos = 1 /\ pos < Len(stream)
    /\ objects = <<>> /\ metadata = EmptyMetadata

====
